---- MODULE Spec2Model ----
(***************************************************************************)
(* PointND<T, N> (src/src/point.rs): a fixed-length point backed by an     *)
(* array [T; N], its consuming appliers apply, apply_dims, apply_vals and  *)
(* apply_point, and extend and retain, which change the number of          *)
(* dimensions. Every one of them moves the items of self into a scratch    *)
(* ArrayVec `this`, pops them from the front one per loop iteration, and   *)
(* pushes the outcome into the scratch ArrayVec `arr_v`, which is finally  *)
(* converted into the array of the returned point.                         *)
(*                                                                         *)
(* One loop iteration is one step of the model, so that the order and the  *)
(* number of the modifier's invocations are visible in `calls`.            *)
(*                                                                         *)
(* The constructors (from, fill, from_slice, try_from), the conversion     *)
(* back into an array, the derived equality and the accessors reached      *)
(* through Deref (get, indexing) are one step each.                        *)
(***************************************************************************)
EXTENDS Integers, Sequences, FiniteSets, TLC

\* ---------------------------------------------------------------- bounds
\* Greatest number of dimensions (the const generic N) of a point.
MaxN == 2
\* Plain items are 0..MaxVal.
MaxVal == 1
\* Greatest length of the `dims` slice handed to apply_dims.
MaxDims == 2

\* ----------------------------------------------------------------- items
Val == 0..MaxVal
\* The item a fallible modifier returns as its failure value (Err, None).
ErrItem == MaxVal + 1
\* The item type T (= U = V) of the points of the model.
Elem == Val \cup {ErrItem}
\* Not an item: the outcome of a modifier call that panics.
Panic == MaxVal + 2

\* Arrays [T; len].
Arrays(len) == [1..len -> Elem]
\* The slices &[usize] a caller can hand to apply_dims; MaxN is out of range
\* for every point of fewer than MaxN + 1 dimensions.
DimsSlices == UNION {[1..len -> 0..MaxN] : len \in 0..MaxDims}

\* -------------------------------------------------------------- modifiers
\* The function pointers fn(T) -> U given to apply and apply_dims.
ApplyFns == {"succ", "try_pred", "pred_or_panic"}
\* The function pointers fn(T, V) -> U given to apply_vals and apply_point.
ApplyValsFns == {"add", "try_sub", "sub_or_panic"}

\* A faulty composition, |x| f(g(x)).
compose_reversed(f, g) == g \o "." \o f

\* The closure |x| g(f(x)) a caller builds from two modifiers.
compose(f, g) == f \o "." \o g

\* modifier(item): an item, or Panic when the call unwinds. A closure
\* |x| g(f(x)) unwinds when f or g does.
RECURSIVE ApplyFn(_, _)
ApplyFn(f, x) ==
    CASE f = "succ" ->
            IF x = ErrItem THEN ErrItem ELSE (x + 1) % (MaxVal + 1)
      [] f = "try_pred" ->
            IF x = ErrItem \/ x = 0 THEN ErrItem ELSE x - 1
      [] f = "pred_or_panic" ->
            IF x = ErrItem \/ x = 0 THEN Panic ELSE x - 1
      [] OTHER ->
            LET fg == CHOOSE pair \in ApplyFns \X ApplyFns :
                          f = pair[1] \o "." \o pair[2]
                y  == ApplyFn(fg[1], x)
            IN  IF y = Panic THEN Panic ELSE ApplyFn(fg[2], y)

\* modifier(a, b): a is the point's item, b the item of values.
ApplyValsFn(f, a, b) ==
    CASE f = "add" ->
            IF a = ErrItem \/ b = ErrItem THEN ErrItem
            ELSE (a + b) % (MaxVal + 1)
      [] f = "try_sub" ->
            IF a = ErrItem \/ b = ErrItem \/ a < b THEN ErrItem ELSE a - b
      [] f = "sub_or_panic" ->
            IF a = ErrItem \/ b = ErrItem \/ a < b THEN Panic ELSE a - b

\* ------------------------------------------------------------ PointND
\* The tuple struct PointND<T, N>([T; N]) is the 1-tuple of its array.
\* impl From<[T; N]> for PointND<T, N>: PointND(array)
PointND_from(array) == <<array>>

\* A faulty into_arr, handing the items back in reverse order.
into_arr_reversed(point) ==
    [k \in 1..Len(point[1]) |-> point[1][Len(point[1]) + 1 - k]]

\* PointND::into_arr: self.0
into_arr(point) == point[1]

\* PointND::dims: self.0.len(), of the items the model holds (see `blocks`).
dims_of(point) == Len(point[1])

\* The points a program can build with PointND::from(array).
Points == {PointND_from(array) : array \in UNION {Arrays(len) : len \in 0..MaxN}}

\* u32::MAX, as its sixteen-bit halves: TLC's integers stop short of it.
U16_MAX == 65535

\* The const generic N of the points of a behaviour may be too great for the
\* model to hold all N items: the array of a point has blocks * 2^16 further
\* items past those in the point's sequence. blocks is 0 for every point
\* whose loops the model runs through.
VARIABLE blocks

\* 2^15 blocks are 2^31 items: a length within the ceiling, twice which is
\* not.
HalfBlocks == (U16_MAX + 1) \div 2

\* The calls the model follows on a point: every call when all the items are
\* held, and the calls that end in the capacity check when they are not. A
\* loop over 2^31 items is not run through.
Followed(blks) == blks = 0 \/ blks > U16_MAX

\* not (length > ARRVEC_CAP), with ARRVEC_CAP = u32::MAX = U16_MAX * 2^16 +
\* U16_MAX, for a length of blks blocks and cap items.
within_cap(cap, blks) == ~(blks + cap \div (U16_MAX + 1) > U16_MAX)

\* A faulty capacity check, against a ceiling no length exceeds (usize::MAX).
check_arrvec_cap_usize(cap) == TRUE

\* _check_arrvec_cap passes: not (cap > ARRVEC_CAP). cap counts the items the
\* model holds, on top of the blocks of the point.
check_arrvec_cap(cap) == within_cap(cap, blocks)

\* A faulty second check of extend, of the length of values alone.
extend_within_cap_values(len_n, len_l, vblocks) == within_cap(len_l, vblocks)

\* extend's second check passes: not (N + L > ARRVEC_CAP), for values of
\* vblocks blocks and len_l items.
extend_within_cap(len_n, len_l, vblocks) ==
    within_cap(len_n + len_l, blocks + vblocks)

\* ------------------------------------------------------------ ArrayVec
\* ArrayVec::<T, CAP>::new()
ArrayVec_new == <<>>

\* ArrayVec::from(array)
ArrayVec_from(array) == array

\* A faulty pop_at, counting index from the back (pop() for index 0).
pop_back(v, index) ==
    IF index < Len(v)
    THEN [item |-> <<v[Len(v) - index]>>,
          rest |-> SubSeq(v, 1, Len(v) - index - 1)
                   \o SubSeq(v, Len(v) - index + 1, Len(v))]
    ELSE [item |-> <<>>, rest |-> v]

\* ArrayVec::pop_at(index): Some(item) and the rest closed up, or None.
\* An Option is a sequence of at most one item.
pop_at(v, index) ==
    IF index < Len(v)
    THEN [item |-> <<v[index + 1]>>,
          rest |-> SubSeq(v, 1, index) \o SubSeq(v, index + 2, Len(v))]
    ELSE [item |-> <<>>, rest |-> v]

\* A faulty push, which drops the item when the vector is full (try_push with
\* its Err ignored).
push_dropping(v, cap, item) ==
    IF Len(v) < cap
    THEN [ok |-> TRUE, v |-> Append(v, item)]
    ELSE [ok |-> TRUE, v |-> v]

\* ArrayVec::push(item) on a vector of capacity cap: panics when full.
push(v, cap, item) ==
    IF Len(v) < cap
    THEN [ok |-> TRUE, v |-> Append(v, item)]
    ELSE [ok |-> FALSE, v |-> v]

\* A faulty arrvec_into_inner, trusting the vector to be full
\* (into_inner_unchecked).
arrvec_into_inner_unchecked(v, cap) == <<v>>

\* arrvec_into_inner: Some(array) when the vector is full, else the panic.
arrvec_into_inner(v, cap) ==
    IF Len(v) = cap THEN <<v>> ELSE <<>>

\* A faulty contains, off by one (indices taken as counted from 1).
contains_next(slice, x) == \E k \in 1..Len(slice) : slice[k] = x + 1

\* slice.contains(&x)
contains(slice, x) == \E k \in 1..Len(slice) : slice[k] = x

\* Faulty loop ranges: 0..N-1 and 0..=N.
InLoop_short(j, len) == j < len - 1

InLoop_inclusive(j, len) == j <= len

\* `for _ in 0..N`: the loop body runs once more.
InLoop(j, len) == j < len

\* ------------------------------------------------- the scratch of a call
\* The scratch ArrayVecs of one applier call, the invocations of the modifier
\* so far (args, ret), and the panic that ended the call ("none" while it
\* runs): "check_cap", "more_dims", "unwrap", "push", "into_inner" or
\* "modifier".
NewScratch(self, values) ==
    [this  |-> ArrayVec_from(into_arr(self)),
     vals  |-> ArrayVec_from(values),
     arr_v |-> ArrayVec_new,
     calls |-> <<>>,
     panic |-> "none"]

Fail(S, why) == [S EXCEPT !.panic = why]

\* One invocation of the modifier, as `calls` records it.
Call(args, ret) == [args |-> args, ret |-> ret]

\* A faulty body of apply's loop: the modifier is invoked twice on the item.
ApplyIter_twice(S, cap, f) ==
    LET popped == pop_at(S.this, 0) IN
    IF popped.item = <<>> THEN Fail(S, "unwrap")
    ELSE LET item == popped.item[1]
             out  == ApplyFn(f, item)
             S1   == [S EXCEPT !.this = popped.rest,
                               !.calls = @ \o <<Call(<<item>>, out),
                                                Call(<<item>>, out)>>]
         IN  IF out = Panic THEN Fail(S1, "modifier")
             ELSE LET pushed == push(S1.arr_v, cap, out) IN
                  IF pushed.ok THEN [S1 EXCEPT !.arr_v = pushed.v]
                  ELSE Fail(S1, "push")

\* A faulty body of apply's loop: a panic of the modifier is caught and the
\* item kept as it was.
ApplyIter_swallow(S, cap, f) ==
    LET popped == pop_at(S.this, 0) IN
    IF popped.item = <<>> THEN Fail(S, "unwrap")
    ELSE LET item == popped.item[1]
             out  == ApplyFn(f, item)
             S1   == [S EXCEPT !.this = popped.rest,
                               !.calls = Append(@, Call(<<item>>, out))]
             kept == IF out = Panic THEN item ELSE out
             pushed == push(S1.arr_v, cap, kept)
         IN  IF pushed.ok THEN [S1 EXCEPT !.arr_v = pushed.v]
             ELSE Fail(S1, "push")

\* The body of apply's loop:
\*     let item = this.pop_at(0).unwrap();
\*     arr_v.push(modifier(item));
ApplyIter(S, cap, f) ==
    LET popped == pop_at(S.this, 0) IN
    IF popped.item = <<>> THEN Fail(S, "unwrap")
    ELSE LET item == popped.item[1]
             out  == ApplyFn(f, item)
             S1   == [S EXCEPT !.this = popped.rest,
                               !.calls = Append(@, Call(<<item>>, out))]
         IN  IF out = Panic THEN Fail(S1, "modifier")
             ELSE LET pushed == push(S1.arr_v, cap, out) IN
                  IF pushed.ok THEN [S1 EXCEPT !.arr_v = pushed.v]
                  ELSE Fail(S1, "push")

\* A faulty body of apply_dims's loop: the modifier is applied once for every
\* occurrence of j in dims.
RECURSIVE ModifyPerIndex(_, _, _, _)
ModifyPerIndex(S, ds, j, f) ==
    \* S.arr_v's last item is modified once for each occurrence of j in ds
    IF ds = <<>> \/ S.panic # "none" THEN S
    ELSE IF Head(ds) # j THEN ModifyPerIndex(S, Tail(ds), j, f)
    ELSE LET item == S.arr_v[Len(S.arr_v)]
             out  == ApplyFn(f, item)
             S1   == [S EXCEPT !.calls = Append(@, Call(<<item>>, out))]
         IN  IF out = Panic THEN Fail(S1, "modifier")
             ELSE ModifyPerIndex(
                      [S1 EXCEPT !.arr_v[Len(S.arr_v)] = out], Tail(ds), j, f)

ApplyDimsIter_per_index(S, cap, ds, j, f) ==
    LET popped == pop_at(S.this, 0) IN
    IF popped.item = <<>> THEN Fail(S, "unwrap")
    ELSE LET pushed == push(S.arr_v, cap, popped.item[1]) IN
         IF ~pushed.ok THEN Fail([S EXCEPT !.this = popped.rest], "push")
         ELSE ModifyPerIndex(
                  [S EXCEPT !.this = popped.rest, !.arr_v = pushed.v],
                  ds, j, f)

\* A faulty body of apply_dims's loop: the listed indices are used to index
\* the point, which panics on an index out of range.
ApplyDimsIter_indexing(S, cap, ds, j, f) ==
    LET popped == pop_at(S.this, 0) IN
    IF popped.item = <<>> THEN Fail(S, "unwrap")
    ELSE IF \E k \in 1..Len(ds) : ds[k] >= cap THEN Fail(S, "index")
    ELSE LET item == popped.item[1]
             S0   == [S EXCEPT !.this = popped.rest]
         IN  IF contains(ds, j)
             THEN LET out == ApplyFn(f, item)
                      S1  == [S0 EXCEPT
                                 !.calls = Append(@, Call(<<item>>, out))]
                  IN  IF out = Panic THEN Fail(S1, "modifier")
                      ELSE LET pushed == push(S1.arr_v, cap, out) IN
                           IF pushed.ok THEN [S1 EXCEPT !.arr_v = pushed.v]
                           ELSE Fail(S1, "push")
             ELSE LET pushed == push(S0.arr_v, cap, item) IN
                  IF pushed.ok THEN [S0 EXCEPT !.arr_v = pushed.v]
                  ELSE Fail(S0, "push")

\* The body of apply_dims's loop, at index j:
\*     let item = this.pop_at(0).unwrap();
\*     if dims.contains(&j) { arr_v.push(modifier(item)); }
\*     else { arr_v.push(item); }
ApplyDimsIter(S, cap, ds, j, f) ==
    LET popped == pop_at(S.this, 0) IN
    IF popped.item = <<>> THEN Fail(S, "unwrap")
    ELSE LET item == popped.item[1]
             S0   == [S EXCEPT !.this = popped.rest]
         IN  IF contains(ds, j)
             THEN LET out == ApplyFn(f, item)
                      S1  == [S0 EXCEPT
                                 !.calls = Append(@, Call(<<item>>, out))]
                  IN  IF out = Panic THEN Fail(S1, "modifier")
                      ELSE LET pushed == push(S1.arr_v, cap, out) IN
                           IF pushed.ok THEN [S1 EXCEPT !.arr_v = pushed.v]
                           ELSE Fail(S1, "push")
             ELSE LET pushed == push(S0.arr_v, cap, item) IN
                  IF pushed.ok THEN [S0 EXCEPT !.arr_v = pushed.v]
                  ELSE Fail(S0, "push")

\* A faulty body of apply_vals's loop: modifier(b, a).
ApplyValsIter_swapped(S, cap, f) ==
    LET popped_a == pop_at(S.this, 0)
        popped_b == pop_at(S.vals, 0)
    IN  IF popped_a.item = <<>> \/ popped_b.item = <<>>
        THEN Fail(S, "unwrap")
        ELSE LET a   == popped_a.item[1]
                 b   == popped_b.item[1]
                 out == ApplyValsFn(f, b, a)
                 S1  == [S EXCEPT !.this = popped_a.rest,
                                  !.vals = popped_b.rest,
                                  !.calls = Append(@, Call(<<b, a>>, out))]
             IN  IF out = Panic THEN Fail(S1, "modifier")
                 ELSE LET pushed == push(S1.arr_v, cap, out) IN
                      IF pushed.ok THEN [S1 EXCEPT !.arr_v = pushed.v]
                      ELSE Fail(S1, "push")

\* The body of apply_vals's loop:
\*     let a = this.pop_at(0).unwrap();
\*     let b = vals.pop_at(0).unwrap();
\*     arr_v.push(modifier(a, b));
ApplyValsIter(S, cap, f) ==
    LET popped_a == pop_at(S.this, 0)
        popped_b == pop_at(S.vals, 0)
    IN  IF popped_a.item = <<>> \/ popped_b.item = <<>>
        THEN Fail(S, "unwrap")
        ELSE LET a   == popped_a.item[1]
                 b   == popped_b.item[1]
                 out == ApplyValsFn(f, a, b)
                 S1  == [S EXCEPT !.this = popped_a.rest,
                                  !.vals = popped_b.rest,
                                  !.calls = Append(@, Call(<<a, b>>, out))]
             IN  IF out = Panic THEN Fail(S1, "modifier")
                 ELSE LET pushed == push(S1.arr_v, cap, out) IN
                      IF pushed.ok THEN [S1 EXCEPT !.arr_v = pushed.v]
                      ELSE Fail(S1, "push")

\* A faulty body of the loop that moves the items of self, taking them from
\* the back: arr_v.push(this.pop().unwrap());
MoveSelfIter_back(S, cap) ==
    LET popped == pop_back(S.this, 0) IN
    IF popped.item = <<>> THEN Fail(S, "unwrap")
    ELSE LET S1     == [S EXCEPT !.this = popped.rest]
             pushed == push(S1.arr_v, cap, popped.item[1])
         IN  IF pushed.ok THEN [S1 EXCEPT !.arr_v = pushed.v]
             ELSE Fail(S1, "push")

\* The body of extend's first loop and of retain's loop:
\*     arr_v.push(this.pop_at(0).unwrap());
MoveSelfIter(S, cap) ==
    LET popped == pop_at(S.this, 0) IN
    IF popped.item = <<>> THEN Fail(S, "unwrap")
    ELSE LET S1     == [S EXCEPT !.this = popped.rest]
             pushed == push(S1.arr_v, cap, popped.item[1])
         IN  IF pushed.ok THEN [S1 EXCEPT !.arr_v = pushed.v]
             ELSE Fail(S1, "push")

\* A faulty body of extend's second loop, taking the values from the back:
\*     arr_v.push(vals.pop().unwrap());
MoveValsIter_back(S, cap) ==
    LET popped == pop_back(S.vals, 0) IN
    IF popped.item = <<>> THEN Fail(S, "unwrap")
    ELSE LET S1     == [S EXCEPT !.vals = popped.rest]
             pushed == push(S1.arr_v, cap, popped.item[1])
         IN  IF pushed.ok THEN [S1 EXCEPT !.arr_v = pushed.v]
             ELSE Fail(S1, "push")

\* The body of extend's second loop:
\*     arr_v.push(vals.pop_at(0).unwrap());
MoveValsIter(S, cap) ==
    LET popped == pop_at(S.vals, 0) IN
    IF popped.item = <<>> THEN Fail(S, "unwrap")
    ELSE LET S1     == [S EXCEPT !.vals = popped.rest]
             pushed == push(S1.arr_v, cap, popped.item[1])
         IN  IF pushed.ok THEN [S1 EXCEPT !.arr_v = pushed.v]
             ELSE Fail(S1, "push")

\* What a call hands back: "returned" with the new point, or "panicked".
Outcome(S, cap) ==
    LET inner == arrvec_into_inner(S.arr_v, cap) IN
    IF S.panic # "none"
    THEN [status |-> "panicked", cause |-> S.panic,
          point |-> <<>>, calls |-> S.calls]
    ELSE IF inner = <<>>
    THEN [status |-> "panicked", cause |-> "into_inner",
          point |-> <<>>, calls |-> S.calls]
    ELSE [status |-> "returned", cause |-> "none",
          point |-> PointND_from(inner[1]), calls |-> S.calls]

CapPanic ==
    [status |-> "panicked", cause |-> "check_cap",
     point |-> <<>>, calls |-> <<>>]

\* -------------------------------------------- the appliers, as functions
RECURSIVE apply_loop(_, _, _, _, _)
apply_loop(S, j, len, cap, f) ==
    IF S.panic # "none" \/ ~InLoop(j, len) THEN S
    ELSE apply_loop(ApplyIter(S, cap, f), j + 1, len, cap, f)

\* PointND::apply(self, modifier)
apply(self, f) ==
    IF ~check_arrvec_cap(dims_of(self)) THEN CapPanic
    ELSE Outcome(apply_loop(NewScratch(self, <<>>), 0, dims_of(self),
                            dims_of(self), f),
                 dims_of(self))

RECURSIVE apply_dims_loop(_, _, _, _, _, _)
apply_dims_loop(S, j, len, cap, ds, f) ==
    IF S.panic # "none" \/ ~InLoop(j, len) THEN S
    ELSE apply_dims_loop(ApplyDimsIter(S, cap, ds, j, f),
                         j + 1, len, cap, ds, f)

\* PointND::apply_dims(self, dims, modifier)
apply_dims(self, ds, f) ==
    IF ~check_arrvec_cap(dims_of(self)) THEN CapPanic
    ELSE Outcome(apply_dims_loop(NewScratch(self, <<>>), 0, dims_of(self),
                                 dims_of(self), ds, f),
                 dims_of(self))

RECURSIVE apply_vals_loop(_, _, _, _, _)
apply_vals_loop(S, j, len, cap, f) ==
    IF S.panic # "none" \/ ~InLoop(j, len) THEN S
    ELSE apply_vals_loop(ApplyValsIter(S, cap, f), j + 1, len, cap, f)

\* PointND::apply_vals(self, values, modifier)
apply_vals(self, values, f) ==
    IF ~check_arrvec_cap(dims_of(self)) THEN CapPanic
    ELSE Outcome(apply_vals_loop(NewScratch(self, values), 0, dims_of(self),
                                 dims_of(self), f),
                 dims_of(self))

\* A faulty delegation: other.apply_vals(self.into_arr(), modifier).
apply_point_args_swapped(self, other) ==
    [self |-> other, values |-> into_arr(self)]

\* apply_point's delegation: self.apply_vals(other.into_arr(), modifier)
apply_point_args(self, other) ==
    [self |-> self, values |-> into_arr(other)]

\* ------------------------------- constructors, conversions, accessors
\* impl From<PointND<T, N>> for [T; N]: point.into_arr()
array_from(point) == into_arr(point)

\* A faulty fill, of default items ([T::default(); N]).
fill_default(value, len) == PointND_from([k \in 1..len |-> 0])

\* PointND::fill(value): PointND::from([value; N])
fill(value, len) == PointND_from([k \in 1..len |-> value])

\* The slices &[T] a caller can hand to from_slice and try_from; the longest
\* is longer than every point.
Slices == UNION {Arrays(len) : len \in 0..(MaxN + 1)}

\* A faulty conversion, taking the first N items of a slice that has more.
try_into_array_prefix(slice, len) ==
    IF Len(slice) >= len THEN <<[k \in 1..len |-> slice[k]]>> ELSE <<>>

\* <[T; N]>::try_from(slice): Ok(array), the copy of the items, when
\* slice.len() == N, else Err. A Result is a sequence of at most one value.
try_into_array(slice, len) ==
    IF Len(slice) = len THEN <<[k \in 1..len |-> slice[k]]>> ELSE <<>>

\* PointND::from_slice(slice): slice.try_into().unwrap(), then From. The
\* point, or <<>> (no point) when unwrap panics.
from_slice(slice, len) ==
    LET res == try_into_array(slice, len) IN
    IF res = <<>> THEN <<>> ELSE PointND_from(res[1])

\* impl TryFrom<&[T]> for PointND<T, N>: Ok(PointND(arr)) or Err(err).
try_from(slice, len) ==
    LET res == try_into_array(slice, len) IN
    IF res = <<>> THEN <<>> ELSE <<PointND_from(res[1])>>

\* A faulty equality, which stops at the first dimension.
eq_first(a, b) == dims_of(a) = 0 \/ into_arr(a)[1] = into_arr(b)[1]

\* The derived PartialEq of the tuple struct: self.0 == other.0, the arrays
\* compared item by item.
eq(a, b) == \A k \in 1..dims_of(a) : into_arr(a)[k] = into_arr(b)[k]

\* point.get(idx), the slice method reached through Deref: Some(&item) or
\* None.
get(point, idx) ==
    IF idx < dims_of(point) THEN <<into_arr(point)[idx + 1]>> ELSE <<>>

\* A faulty indexing, which wraps the index around.
index_wrapping(point, idx) ==
    IF dims_of(point) > 0
    THEN into_arr(point)[(idx % dims_of(point)) + 1]
    ELSE Panic

\* point[idx], the array indexing reached through Deref: the item, or the
\* panic on an index out of bounds.
index(point, idx) ==
    IF idx < dims_of(point) THEN into_arr(point)[idx + 1] ELSE Panic

\* ------------------------------------- src/src/lib.rs: the constructors
\* The variant of PointND in src/src/lib.rs refuses points of no dimension.
\* A faulty new, without the refusal (as From in point.rs).
lib_new_unchecked(array) == <<array>>

\* lib.rs PointND::new(arr): panics (<<>>, no point) if arr.len() == 0, else
\* PointND(arr).
lib_new(array) == IF Len(array) = 0 THEN <<>> ELSE <<array>>

\* lib.rs PointND::from_slice(slice): slice.try_into().unwrap(), then new.
\* The point (<<>> after a panic) and what panicked.
lib_from_slice(slice, len) ==
    LET res == try_into_array(slice, len) IN
    IF res = <<>> THEN [point |-> <<>>, cause |-> "try_into"]
    ELSE IF lib_new(res[1]) = <<>>
    THEN [point |-> <<>>, cause |-> "zero_dims"]
    ELSE [point |-> lib_new(res[1]), cause |-> "none"]

\* lib.rs PointND::fill(value): PointND::new([value; N])
lib_fill(value, len) == lib_new([k \in 1..len |-> value])

\* lib.rs TryFrom<[T; N]>: Err(()) if array.len() == 0, else
\* Ok(PointND(array)).
lib_try_from_array(array) ==
    IF Len(array) = 0 THEN <<>> ELSE <<(<<array>>)>>

\* lib.rs TryFrom<&[T]>: Err(ZeroDimensions) if slice.len() == 0,
\* Err(TryFromSlice(err)) if the conversion fails, else Ok(PointND(arr)).
lib_try_from_slice(slice, len) ==
    IF Len(slice) = 0 THEN [ok |-> <<>>, err |-> "ZeroDimensions"]
    ELSE LET res == try_into_array(slice, len) IN
         IF res = <<>> THEN [ok |-> <<>>, err |-> "TryFromSlice"]
         ELSE [ok |-> <<(<<res[1]>>)>>, err |-> "none"]

\* ----------------------------------------- src/src/lib.rs: the appliers
\* What a call of lib.rs hands back, in the shape of Outcome: a panic of
\* the modifier, a panic of new, or the point.
LibOutcome(panic, point, calls) ==
    IF panic # "none"
    THEN [status |-> "panicked", cause |-> panic,
          point |-> <<>>, calls |-> calls]
    ELSE IF point = <<>>
    THEN [status |-> "panicked", cause |-> "zero_dims",
          point |-> <<>>, calls |-> calls]
    ELSE [status |-> "returned", cause |-> "none",
          point |-> point, calls |-> calls]

\* for i in 0..N { arr.push(modifier(&self[i])); }
RECURSIVE lib_apply_loop(_, _, _, _, _)
lib_apply_loop(self_arr, arr, calls, j, f) ==
    IF ~InLoop(j, Len(self_arr))
    THEN [arr |-> arr, calls |-> calls, panic |-> "none"]
    ELSE LET item   == self_arr[j + 1]
             ret    == ApplyFn(f, item)
             calls1 == Append(calls, Call(<<item>>, ret))
         IN  IF ret = Panic
             THEN [arr |-> arr, calls |-> calls1, panic |-> "modifier"]
             ELSE lib_apply_loop(self_arr, Append(arr, ret), calls1, j + 1, f)

\* lib.rs apply(self, modifier): the loop, then
\* PointND::new(arr.into_inner_unchecked()); arr is full after N pushes.
lib_apply(self, f) ==
    LET S == lib_apply_loop(into_arr(self), <<>>, <<>>, 0, f) IN
    LibOutcome(S.panic, IF S.panic = "none" THEN lib_new(S.arr) ELSE <<>>,
               S.calls)

\* A faulty loop of apply_dims, over the list instead of the positions:
\*     for d in dims { self[*d] = modifier(&self[*d]); }
RECURSIVE lib_apply_dims_loop_over_dims(_, _, _, _, _)
lib_apply_dims_loop_over_dims(arr, calls, j, ds, f) ==
    IF ~InLoop(j, Len(ds))
    THEN [arr |-> arr, calls |-> calls, panic |-> "none"]
    ELSE IF ds[j + 1] >= Len(arr)
    THEN [arr |-> arr, calls |-> calls, panic |-> "out_of_bounds"]
    ELSE LET item   == arr[ds[j + 1] + 1]
             ret    == ApplyFn(f, item)
             calls1 == Append(calls, Call(<<item>>, ret))
         IN  IF ret = Panic
             THEN [arr |-> arr, calls |-> calls1, panic |-> "modifier"]
             ELSE lib_apply_dims_loop_over_dims(
                      [arr EXCEPT ![ds[j + 1] + 1] = ret], calls1, j + 1,
                      ds, f)

lib_apply_dims_over_dims(self, ds, f) ==
    LET S == lib_apply_dims_loop_over_dims(into_arr(self), <<>>, 0, ds, f)
    IN  LibOutcome(S.panic, <<S.arr>>, S.calls)

\* for i in 0..N { if dims.contains(&i) { self[i] = modifier(&self[i]); } }
RECURSIVE lib_apply_dims_loop(_, _, _, _, _)
lib_apply_dims_loop(arr, calls, j, ds, f) ==
    IF ~InLoop(j, Len(arr))
    THEN [arr |-> arr, calls |-> calls, panic |-> "none"]
    ELSE IF ~contains(ds, j)
    THEN lib_apply_dims_loop(arr, calls, j + 1, ds, f)
    ELSE LET item   == arr[j + 1]
             ret    == ApplyFn(f, item)
             calls1 == Append(calls, Call(<<item>>, ret))
         IN  IF ret = Panic
             THEN [arr |-> arr, calls |-> calls1, panic |-> "modifier"]
             ELSE lib_apply_dims_loop([arr EXCEPT ![j + 1] = ret], calls1,
                                      j + 1, ds, f)

\* lib.rs apply_dims(mut self, dims, modifier): the loop writes into self,
\* which is handed back.
lib_apply_dims(self, ds, f) ==
    LET S == lib_apply_dims_loop(into_arr(self), <<>>, 0, ds, f) IN
    LibOutcome(S.panic, <<S.arr>>, S.calls)

\* for i in 0..N { arr.push(modifier(&self[i], &values[i])); }
RECURSIVE lib_apply_vals_loop(_, _, _, _, _, _)
lib_apply_vals_loop(self_arr, values, arr, calls, j, f) ==
    IF ~InLoop(j, Len(self_arr))
    THEN [arr |-> arr, calls |-> calls, panic |-> "none"]
    ELSE LET a      == self_arr[j + 1]
             b      == values[j + 1]
             ret    == ApplyValsFn(f, a, b)
             calls1 == Append(calls, Call(<<a, b>>, ret))
         IN  IF ret = Panic
             THEN [arr |-> arr, calls |-> calls1, panic |-> "modifier"]
             ELSE lib_apply_vals_loop(self_arr, values, Append(arr, ret),
                                      calls1, j + 1, f)

\* lib.rs apply_vals(self, values, modifier)
lib_apply_vals(self, values, f) ==
    LET S == lib_apply_vals_loop(into_arr(self), values, <<>>, <<>>, 0, f)
    IN  LibOutcome(S.panic,
                   IF S.panic = "none" THEN lib_new(S.arr) ELSE <<>>,
                   S.calls)

\* lib.rs apply_point: self.apply_vals(other.into_arr(), modifier)
lib_apply_point(self, other, f) == lib_apply_vals(self, into_arr(other), f)

\* ---------------------------------------- src/src/lib.rs: the operators
\* The item type of the operators is the ring of the integers modulo
\* Modulus, which the items 0..MaxVal + 1 are; a division by zero panics.
Modulus == MaxVal + 2

BinOps == {"add", "sub", "mul", "div"}

\* a + b, a - b, a * b, a / b of the items; Panic for a / 0.
ItemOp(op, a, b) ==
    CASE op = "add" -> (a + b) % Modulus
      [] op = "sub" -> (a - b + Modulus) % Modulus
      [] op = "mul" -> (a * b) % Modulus
      [] op = "div" -> IF b = 0 THEN Panic ELSE a \div b

\* -a of the item.
ItemNeg(a) == (Modulus - a) % Modulus

\* for i in 0..N { arr[i] = arr[i].clone() <op> rhs[i].clone(); }, and
\* for i in 0..N { self[i] <op>= rhs[i].clone(); }: the array, in a
\* sequence, or <<>> when an item operation panics.
RECURSIVE lib_arith_loop(_, _, _, _)
lib_arith_loop(op, arr, rhs, j) ==
    IF ~InLoop(j, Len(arr)) THEN <<arr>>
    ELSE LET v == ItemOp(op, arr[j + 1], rhs[j + 1]) IN
         IF v = Panic THEN <<>>
         ELSE lib_arith_loop(op, [arr EXCEPT ![j + 1] = v], rhs, j + 1)

\* A faulty binary operator, with the operands the wrong way round.
lib_binop_swapped(op, self, rhs) ==
    LET res == lib_arith_loop(op, into_arr(rhs), into_arr(self), 0) IN
    IF res = <<>> THEN LibOutcome("arith", <<>>, <<>>)
    ELSE LibOutcome("none", lib_new(res[1]), <<>>)

\* lib.rs Add::add, Sub::sub, Mul::mul, Div::div: the loop over
\* self.into_arr(), then PointND::new(arr).
lib_binop(op, self, rhs) ==
    LET res == lib_arith_loop(op, into_arr(self), into_arr(rhs), 0) IN
    IF res = <<>> THEN LibOutcome("arith", <<>>, <<>>)
    ELSE LibOutcome("none", lib_new(res[1]), <<>>)

\* lib.rs add_assign, sub_assign, mul_assign, div_assign: the loop writes
\* into self.
lib_op_assign(op, self, rhs) ==
    LET res == lib_arith_loop(op, into_arr(self), into_arr(rhs), 0) IN
    IF res = <<>> THEN LibOutcome("arith", <<>>, <<>>)
    ELSE LibOutcome("none", <<res[1]>>, <<>>)

\* lib.rs Neg::neg: for i in 0..N { arr[i] = -arr[i].clone(); }, then
\* PointND::new(arr).
lib_neg(self) ==
    LibOutcome("none",
               lib_new([k \in 1..dims_of(self) |-> ItemNeg(into_arr(self)[k])]),
               <<>>)

\* --------------------------------------------------------- in-place writes
\* point[idx] = value, the array assignment reached through DerefMut: the
\* point with the item at idx replaced, or <<>> (no point) for the panic on
\* an index out of bounds.
index_set(point, idx, value) ==
    IF idx < dims_of(point)
    THEN PointND_from([into_arr(point) EXCEPT ![idx + 1] = value])
    ELSE <<>>

\* The named axes, and the greatest N that has named setters
\* (impl<T> PointND<T, 4>).
Axes == <<"x", "y", "z", "w">>

MaxAxes == 4

\* A faulty numbering of the axes, counted from 1.
axis_index_from_one(axis) == CHOOSE k \in 1..MaxAxes : Axes[k] = axis

\* The index the setter (and getter) of an axis uses: x 0, y 1, z 2, w 3.
axis_index(axis) == (CHOOSE k \in 1..MaxAxes : Axes[k] = axis) - 1

\* The axes PointND<T, len> has setters for: set_x for 1..4 dimensions,
\* set_y for 2..4, set_z for 3 and 4, set_w for 4; none for other lengths.
AxesOf(len) ==
    IF len \in 1..MaxAxes THEN {Axes[k] : k \in 1..len} ELSE {}

\* set_x, set_y, set_z, set_w: self[index of the axis] = new_value
set_axis(point, axis, value) == index_set(point, axis_index(axis), value)

\* ------------------------------------------------------------- the state
VARIABLES
    pc,        \* "idle" | "loop" | "returned" | "panicked" | "array" | "failed"
    method,    \* the method being run, or last run ("none" before the first)
    p,         \* the point the caller holds; <<>> while a call has consumed it
    n,         \* the const generic N of self in the current call
    m,         \* the capacity of arr_v: the const generic of the result
    i,         \* the number of loop iterations done
    this,      \* scratch: the items of self not yet popped
    vals,      \* scratch: the items of values not yet popped (apply_vals)
    arr_v,     \* scratch: the items of the result pushed so far
    dims,      \* the dims slice of the current apply_dims call
    keep,      \* the dims argument of the current retain call
    modifier,  \* the function pointer of the current call
    src,       \* history: the array of the point the call was made on
    srcvals,   \* history: the values (or other's array) given to the call
    calls,     \* history: the invocations of the modifier in this call
    cause,     \* what panicked, "none" otherwise
    chain0,    \* history: dims() of the point the chain of appliers began with
    arg,       \* history: the arguments of the last constructor, conversion,
               \* comparison or accessor call
    out        \* what that call handed back when it is not a point: an array,
               \* an Option, a Result or a bool, each in a sequence

vars == <<pc, method, p, n, m, i, this, vals, arr_v, dims, keep, modifier,
          src, srcvals, calls, cause, chain0, arg, out, blocks>>

Scratch ==
    [this |-> this, vals |-> vals, arr_v |-> arr_v,
     calls |-> calls, panic |-> cause]

\* The scratch after one loop iteration; a panic unwinds out of the call.
Iterate(S) ==
    /\ this' = S.this
    /\ vals' = S.vals
    /\ arr_v' = S.arr_v
    /\ calls' = S.calls
    /\ cause' = S.panic
    /\ pc' = IF S.panic = "none" THEN "loop" ELSE "panicked"
    /\ i' = IF S.panic = "none" THEN i + 1 ELSE i
    /\ UNCHANGED <<method, p, n, m, dims, keep, modifier,
                   src, srcvals, chain0, arg, out, blocks>>

\* The end of a call: PointND::from(arrvec_into_inner(arr_v, ...)).
Return ==
    LET res == Outcome(Scratch, m) IN
    /\ pc' = res.status
    /\ cause' = res.cause
    /\ p' = res.point
    /\ UNCHANGED <<method, n, m, i, this, vals, arr_v, dims, keep, modifier,
                   src, srcvals, calls, chain0, arg, out, blocks>>

\* The end of an extend or retain call: the returned point has the const
\* generic M of the call as its number of dimensions.
ResizeReturn ==
    LET res == Outcome(Scratch, m) IN
    /\ pc' = res.status
    /\ cause' = res.cause
    /\ p' = res.point
    /\ chain0' = IF res.status = "returned" THEN dims_of(res.point) ELSE chain0
    /\ UNCHANGED <<method, n, m, i, this, vals, arr_v, dims, keep, modifier,
                   src, srcvals, calls, arg, out, blocks>>

\* The start of a call: self is moved into the method,
\* _check_arrvec_cap(N, ...) runs, then the scratch is set up.
Enter(meth, self, values, ds, f) ==
    /\ pc = "idle"
    /\ Followed(blocks)
    /\ method' = meth
    /\ modifier' = f
    /\ dims' = ds
    /\ n' = dims_of(self)
    /\ m' = dims_of(self)
    /\ p' = <<>>
    /\ i' = 0
    /\ calls' = <<>>
    /\ arr_v' = ArrayVec_new
    /\ IF check_arrvec_cap(dims_of(self))
       THEN /\ pc' = "loop"
            /\ cause' = "none"
            /\ this' = ArrayVec_from(into_arr(self))
            /\ vals' = ArrayVec_from(values)
       ELSE /\ pc' = "panicked"
            /\ cause' = "check_cap"
            /\ this' = <<>>
            /\ vals' = <<>>
    /\ UNCHANGED <<keep, chain0, arg, out, blocks>>

Init ==
    /\ pc = "idle"
    /\ method = "none"
    /\ p \in Points
    /\ n = 0
    /\ m = 0
    /\ i = 0
    /\ this = <<>>
    /\ vals = <<>>
    /\ arr_v = <<>>
    /\ dims = <<>>
    /\ keep = 0
    /\ modifier = "none"
    /\ src = <<>>
    /\ srcvals = <<>>
    /\ calls = <<>>
    /\ cause = "none"
    /\ chain0 = dims_of(p)
    /\ arg = <<>>
    /\ out = <<>>
    /\ blocks \in {0, HalfBlocks, U16_MAX + 1}

\* The caller goes on with the returned point: `.apply(..).apply(..)` chains
\* the next call on the result of the last, whose scratch is gone.
Chain ==
    /\ pc = "returned"
    /\ pc' = "idle"
    /\ method' = "none"
    /\ n' = 0
    /\ m' = 0
    /\ i' = 0
    /\ this' = <<>>
    /\ vals' = <<>>
    /\ arr_v' = <<>>
    /\ dims' = <<>>
    /\ keep' = 0
    /\ modifier' = "none"
    /\ src' = <<>>
    /\ srcvals' = <<>>
    /\ calls' = <<>>
    /\ arg' = <<>>
    /\ out' = <<>>
    /\ UNCHANGED <<p, cause, chain0, blocks>>

\* ------------------------------------------------------------------ apply
ApplyBegin ==
    \E f \in ApplyFns :
        /\ Enter("apply", p, <<>>, <<>>, f)
        /\ src' = into_arr(p)
        /\ srcvals' = <<>>

ApplyStep ==
    /\ pc = "loop"
    /\ method = "apply"
    /\ InLoop(i, n)
    /\ Iterate(ApplyIter(Scratch, m, modifier))

ApplyReturn ==
    /\ pc = "loop"
    /\ method = "apply"
    /\ ~InLoop(i, n)
    /\ Return

\* ------------------------------------------------------------- apply_dims
ApplyDimsBegin ==
    \E ds \in DimsSlices, f \in ApplyFns :
        /\ Enter("apply_dims", p, <<>>, ds, f)
        /\ src' = into_arr(p)
        /\ srcvals' = <<>>

ApplyDimsStep ==
    /\ pc = "loop"
    /\ method = "apply_dims"
    /\ InLoop(i, n)
    /\ Iterate(ApplyDimsIter(Scratch, m, dims, i, modifier))

ApplyDimsReturn ==
    /\ pc = "loop"
    /\ method = "apply_dims"
    /\ ~InLoop(i, n)
    /\ Return

\* ------------------------------------------------ apply_vals, apply_point
ApplyValsBegin ==
    /\ pc = "idle"
    /\ \E values \in Arrays(dims_of(p)), f \in ApplyValsFns :
        /\ Enter("apply_vals", p, values, <<>>, f)
        /\ src' = into_arr(p)
        /\ srcvals' = values

\* apply_point checks the capacity itself and hands over to apply_vals,
\* which runs the loop below.
ApplyPointBegin ==
    \E other \in Points, f \in ApplyValsFns :
        LET args == apply_point_args(p, other) IN
        /\ pc = "idle"
        /\ dims_of(other) = dims_of(p)
        /\ Enter("apply_point", args.self, args.values, <<>>, f)
        /\ src' = into_arr(p)
        /\ srcvals' = into_arr(other)

ApplyValsStep ==
    /\ pc = "loop"
    /\ method \in {"apply_vals", "apply_point"}
    /\ InLoop(i, n)
    /\ Iterate(ApplyValsIter(Scratch, m, modifier))

ApplyValsReturn ==
    /\ pc = "loop"
    /\ method \in {"apply_vals", "apply_point"}
    /\ ~InLoop(i, n)
    /\ Return

\* ----------------------------------------------------------------- extend
\* extend::<L, M>(self, values: [T; L]) -> PointND<T, M>. The caller (or type
\* inference) fixes M; nothing at compile time ties it to N + L.
ExtendBegin ==
    /\ pc = "idle"
    /\ \E len \in 0..(MaxN - dims_of(p)), cap \in 0..MaxN,
          vblocks \in {0, HalfBlocks} :
       \E values \in Arrays(len) :
        /\ \/ Followed(blocks) /\ vblocks = 0
           \/ ~within_cap(dims_of(p) + len, blocks + vblocks)
        /\ arg' = [blocks |-> vblocks]
        /\ method' = "extend"
        /\ modifier' = "none"
        /\ dims' = <<>>
        /\ keep' = 0
        /\ src' = into_arr(p)
        /\ srcvals' = values
        /\ n' = dims_of(p)
        /\ m' = cap
        /\ p' = <<>>
        /\ i' = 0
        /\ calls' = <<>>
        /\ arr_v' = ArrayVec_new
        /\ IF check_arrvec_cap(dims_of(p))
              /\ extend_within_cap(dims_of(p), len, vblocks)
           THEN /\ pc' = "loop"
                /\ cause' = "none"
                /\ this' = ArrayVec_from(into_arr(p))
                /\ vals' = ArrayVec_from(values)
           ELSE /\ pc' = "panicked"
                /\ cause' = "check_cap"
                /\ this' = <<>>
                /\ vals' = <<>>
        /\ UNCHANGED <<chain0, out, blocks>>

\* for _ in 0..N { arr_v.push(this.pop_at(0).unwrap()); }
ExtendSelfStep ==
    /\ pc = "loop"
    /\ method = "extend"
    /\ InLoop(i, n)
    /\ Iterate(MoveSelfIter(Scratch, m))

\* for _ in 0..L { arr_v.push(vals.pop_at(0).unwrap()); }
ExtendValsStep ==
    /\ pc = "loop"
    /\ method = "extend"
    /\ ~InLoop(i, n)
    /\ InLoop(i - n, Len(srcvals))
    /\ Iterate(MoveValsIter(Scratch, m))

ExtendReturn ==
    /\ pc = "loop"
    /\ method = "extend"
    /\ ~InLoop(i, n)
    /\ ~InLoop(i - n, Len(srcvals))
    /\ ResizeReturn

\* ----------------------------------------------------------------- retain
\* A faulty guard of retain, which forgets the dims argument.
more_dims_of_type(count, cap, len) == cap > len

\* retain's guard `dims > N || M > N`: there are not that many to retain.
more_dims(count, cap, len) == count > len \/ cap > len

\* retain::<M>(self, dims: usize) -> PointND<T, M>
RetainBegin ==
    \E count \in 0..(MaxN + 1), cap \in 0..(MaxN + 1) :
        /\ pc = "idle"
        /\ Followed(blocks)
        /\ method' = "retain"
        /\ modifier' = "none"
        /\ dims' = <<>>
        /\ keep' = count
        /\ src' = into_arr(p)
        /\ srcvals' = <<>>
        /\ n' = dims_of(p)
        /\ m' = cap
        /\ p' = <<>>
        /\ i' = 0
        /\ calls' = <<>>
        /\ arr_v' = ArrayVec_new
        /\ vals' = <<>>
        /\ IF ~check_arrvec_cap(dims_of(p))
           THEN /\ pc' = "panicked"
                /\ cause' = "check_cap"
                /\ this' = <<>>
           ELSE IF more_dims(count, cap, dims_of(p))
           THEN /\ pc' = "panicked"
                /\ cause' = "more_dims"
                /\ this' = <<>>
           ELSE /\ pc' = "loop"
                /\ cause' = "none"
                /\ this' = ArrayVec_from(into_arr(p))
        /\ UNCHANGED <<chain0, arg, out, blocks>>

\* for _ in 0..dims { let item = this.pop_at(0).unwrap(); arr_v.push(item); }
RetainStep ==
    /\ pc = "loop"
    /\ method = "retain"
    /\ InLoop(i, keep)
    /\ Iterate(MoveSelfIter(Scratch, m))

RetainReturn ==
    /\ pc = "loop"
    /\ method = "retain"
    /\ ~InLoop(i, keep)
    /\ ResizeReturn

\* ------------------------------------------ extend and retain, as functions
RECURSIVE move_self_loop(_, _, _, _)
move_self_loop(S, j, len, cap) ==
    IF S.panic # "none" \/ ~InLoop(j, len) THEN S
    ELSE move_self_loop(MoveSelfIter(S, cap), j + 1, len, cap)

RECURSIVE move_vals_loop(_, _, _, _)
move_vals_loop(S, j, len, cap) ==
    IF S.panic # "none" \/ ~InLoop(j, len) THEN S
    ELSE move_vals_loop(MoveValsIter(S, cap), j + 1, len, cap)

\* A faulty extend, which moves the values before the items of self.
extend_values_first(self, values, cap) ==
    IF ~(check_arrvec_cap(dims_of(self))
         /\ extend_within_cap(dims_of(self), Len(values), 0))
    THEN CapPanic
    ELSE Outcome(move_self_loop(
                     move_vals_loop(NewScratch(self, values),
                                    0, Len(values), cap),
                     0, dims_of(self), cap),
                 cap)

\* PointND::extend::<L, M>(self, values), with M = cap
extend(self, values, cap) ==
    IF ~(check_arrvec_cap(dims_of(self))
         /\ extend_within_cap(dims_of(self), Len(values), 0))
    THEN CapPanic
    ELSE Outcome(move_vals_loop(
                     move_self_loop(NewScratch(self, values),
                                    0, dims_of(self), cap),
                     0, Len(values), cap),
                 cap)

\* PointND::retain::<M>(self, dims), with M = cap and dims = count
retain(self, count, cap) ==
    IF ~check_arrvec_cap(dims_of(self)) THEN CapPanic
    ELSE IF more_dims(count, cap, dims_of(self))
    THEN [status |-> "panicked", cause |-> "more_dims",
          point |-> <<>>, calls |-> <<>>]
    ELSE Outcome(move_self_loop(NewScratch(self, <<>>), 0, count, cap), cap)

\* ------------------------------------------------------------ constructors
\* What every constructor, conversion, comparison and accessor leaves alone.
NoScratchChange ==
    UNCHANGED <<n, m, i, this, vals, arr_v, dims, keep, modifier,
                src, srcvals, calls, blocks>>

\* PointND::from(array): the caller goes on with a new point.
From ==
    /\ pc = "idle"
    /\ blocks = 0
    /\ \E len \in 0..MaxN : \E array \in Arrays(len) :
        /\ p' = PointND_from(array)
        /\ arg' = array
    /\ method' = "from"
    /\ pc' = "returned"
    /\ out' = <<>>
    /\ chain0' = dims_of(p')
    /\ UNCHANGED cause
    /\ NoScratchChange

\* PointND::from(array).into_arr(), or .into(): the point is consumed and
\* the caller is left with an array.
IntoArr ==
    /\ pc = "returned"
    /\ method = "from"
    /\ \E via \in {"into_arr", "array_from"} :
        /\ method' = via
        /\ out' = <<IF via = "into_arr" THEN into_arr(p) ELSE array_from(p)>>
    /\ p' = <<>>
    /\ pc' = "array"
    /\ UNCHANGED <<arg, cause, chain0>>
    /\ NoScratchChange

\* PointND::<T, N>::fill(value)
Fill ==
    /\ pc = "idle"
    /\ blocks = 0
    /\ \E value \in Elem, len \in 0..MaxN :
        /\ p' = fill(value, len)
        /\ arg' = [value |-> value, n |-> len]
    /\ method' = "fill"
    /\ pc' = "returned"
    /\ out' = <<>>
    /\ chain0' = dims_of(p')
    /\ UNCHANGED cause
    /\ NoScratchChange

\* PointND::<T, N>::from_slice(slice)
FromSlice ==
    /\ pc = "idle"
    /\ blocks = 0
    /\ \E slice \in Slices, len \in 0..MaxN :
        LET res == from_slice(slice, len) IN
        /\ arg' = [slice |-> slice, n |-> len]
        /\ p' = res
        /\ IF res = <<>>
           THEN /\ pc' = "panicked"
                /\ cause' = "try_into"
                /\ UNCHANGED chain0
           ELSE /\ pc' = "returned"
                /\ cause' = "none"
                /\ chain0' = dims_of(res)
    /\ method' = "from_slice"
    /\ out' = <<>>
    /\ NoScratchChange

\* PointND::<T, N>::try_from(slice), or slice.try_into()
TryFrom ==
    /\ pc = "idle"
    /\ blocks = 0
    /\ \E slice \in Slices, len \in 0..MaxN :
        LET res == try_from(slice, len) IN
        /\ arg' = [slice |-> slice, n |-> len]
        /\ IF res = <<>>
           THEN /\ pc' = "failed"
                /\ out' = <<"Err">>
                /\ p' = <<>>
                /\ UNCHANGED chain0
           ELSE /\ pc' = "returned"
                /\ out' = <<"Ok">>
                /\ p' = res[1]
                /\ chain0' = dims_of(res[1])
    /\ method' = "try_from"
    /\ UNCHANGED cause
    /\ NoScratchChange

\* ------------------------------------------------ comparison and accessors
\* p == PointND::from(other), for an array of the point's length
Eq ==
    /\ pc = "idle"
    /\ blocks = 0
    /\ \E other \in Arrays(dims_of(p)) :
        /\ out' = <<eq(p, PointND_from(other))>>
        /\ arg' = other
    /\ method' = "eq"
    /\ pc' = "returned"
    /\ UNCHANGED <<p, cause, chain0>>
    /\ NoScratchChange

\* p.get(idx)
Get ==
    /\ pc = "idle"
    /\ blocks = 0
    /\ \E idx \in 0..(MaxN + 1) :
        /\ out' = get(p, idx)
        /\ arg' = idx
    /\ method' = "get"
    /\ pc' = "returned"
    /\ UNCHANGED <<p, cause, chain0>>
    /\ NoScratchChange

\* p[idx]: the point is borrowed, not consumed.
Index ==
    /\ pc = "idle"
    /\ blocks = 0
    /\ \E idx \in 0..(MaxN + 1) :
        LET res == index(p, idx) IN
        /\ arg' = idx
        /\ IF res = Panic
           THEN /\ pc' = "panicked"
                /\ cause' = "out_of_bounds"
                /\ out' = <<>>
           ELSE /\ pc' = "returned"
                /\ cause' = "none"
                /\ out' = <<res>>
    /\ method' = "index"
    /\ UNCHANGED <<p, chain0>>
    /\ NoScratchChange

\* --------------------------------------------------------- in-place writes
\* p[idx] = value: the point is borrowed mutably, not consumed. arg keeps
\* the point as it was before the write.
IndexSet ==
    /\ pc = "idle"
    /\ blocks = 0
    /\ \E idx \in 0..(dims_of(p) + 1), value \in Elem :
        LET res == index_set(p, idx, value) IN
        /\ arg' = [idx |-> idx, value |-> value, old |-> p]
        /\ IF res = <<>>
           THEN /\ pc' = "panicked"
                /\ cause' = "out_of_bounds"
                /\ p' = p
           ELSE /\ pc' = "returned"
                /\ cause' = "none"
                /\ p' = res
    /\ method' = "index_set"
    /\ UNCHANGED <<out, chain0>>
    /\ NoScratchChange

\* p.set_x(value), p.set_y(value), p.set_z(value), p.set_w(value), each for
\* the lengths that have it.
SetAxis ==
    /\ pc = "idle"
    /\ blocks = 0
    /\ \E axis \in AxesOf(dims_of(p)), value \in Elem :
        LET res == set_axis(p, axis, value) IN
        /\ arg' = [idx |-> axis_index(axis), value |-> value, old |-> p]
        /\ method' = "set_" \o axis
        /\ IF res = <<>>
           THEN /\ pc' = "panicked"
                /\ cause' = "out_of_bounds"
                /\ p' = p
           ELSE /\ pc' = "returned"
                /\ cause' = "none"
                /\ p' = res
    /\ UNCHANGED <<out, chain0>>
    /\ NoScratchChange

Next ==
    \/ Chain
    \/ ApplyBegin
    \/ ApplyStep
    \/ ApplyReturn
    \/ ApplyDimsBegin
    \/ ApplyDimsStep
    \/ ApplyDimsReturn
    \/ ApplyValsBegin
    \/ ApplyPointBegin
    \/ ApplyValsStep
    \/ ApplyValsReturn
    \/ ExtendBegin
    \/ ExtendSelfStep
    \/ ExtendValsStep
    \/ ExtendReturn
    \/ RetainBegin
    \/ RetainStep
    \/ RetainReturn
    \/ From
    \/ IntoArr
    \/ Fill
    \/ FromSlice
    \/ TryFrom
    \/ Eq
    \/ Get
    \/ Index
    \/ IndexSet
    \/ SetAxis

Spec == Init /\ [][Next]_vars

\* ---------------------------------------------- the program of lib.rs
\* A constructor of lib.rs has handed back res, a point, or panicked.
LibConstructed(meth, given, res, why) ==
    /\ method' = meth
    /\ arg' = given
    /\ p' = res
    /\ IF res = <<>>
       THEN /\ pc' = "panicked"
            /\ cause' = why
            /\ UNCHANGED chain0
       ELSE /\ pc' = "returned"
            /\ cause' = "none"
            /\ chain0' = dims_of(res)
    /\ out' = <<>>
    /\ NoScratchChange

\* A TryFrom of lib.rs has handed back Ok(point) or Err.
LibTried(meth, given, res, err) ==
    /\ method' = meth
    /\ arg' = given
    /\ IF res = <<>>
       THEN /\ pc' = "failed"
            /\ out' = <<"Err", err>>
            /\ p' = <<>>
            /\ UNCHANGED chain0
       ELSE /\ pc' = "returned"
            /\ out' = <<"Ok">>
            /\ p' = res[1]
            /\ chain0' = dims_of(res[1])
    /\ UNCHANGED cause
    /\ NoScratchChange

LibNew ==
    /\ pc = "idle"
    /\ \E len \in 0..MaxN : \E array \in Arrays(len) :
        LibConstructed("lib_new", [n |-> len, array |-> array],
                       lib_new(array), "zero_dims")

LibFromSlice ==
    /\ pc = "idle"
    /\ \E slice \in Slices, len \in 0..MaxN :
        LET res == lib_from_slice(slice, len) IN
        LibConstructed("lib_from_slice", [n |-> len, slice |-> slice],
                       res.point, res.cause)

LibFill ==
    /\ pc = "idle"
    /\ \E value \in Elem, len \in 0..MaxN :
        LibConstructed("lib_fill", [n |-> len, value |-> value],
                       lib_fill(value, len), "zero_dims")

LibTryFromArray ==
    /\ pc = "idle"
    /\ \E len \in 0..MaxN : \E array \in Arrays(len) :
        LibTried("lib_try_from_array", [n |-> len, array |-> array],
                 lib_try_from_array(array), "()")

LibTryFromSlice ==
    /\ pc = "idle"
    /\ \E slice \in Slices, len \in 0..MaxN :
        LET res == lib_try_from_slice(slice, len) IN
        LibTried("lib_try_from_slice", [n |-> len, slice |-> slice],
                 res.ok, res.err)

\* A call of lib.rs on the held point has ended as res says.
LibCalled(meth, values, ds, f, given, res) ==
    /\ method' = meth
    /\ src' = into_arr(p)
    /\ srcvals' = values
    /\ dims' = ds
    /\ modifier' = f
    /\ arg' = given
    /\ out' = <<>>
    /\ pc' = res.status
    /\ cause' = res.cause
    /\ p' = res.point
    /\ calls' = res.calls
    /\ chain0' = IF res.status = "returned" THEN dims_of(res.point)
                 ELSE chain0
    /\ UNCHANGED <<n, m, i, this, vals, arr_v, keep, blocks>>

LibApply ==
    /\ pc = "idle"
    /\ p # <<>>
    /\ \E f \in ApplyFns :
        LibCalled("lib_apply", <<>>, <<>>, f, <<>>, lib_apply(p, f))

LibApplyDims ==
    /\ pc = "idle"
    /\ p # <<>>
    /\ \E ds \in DimsSlices, f \in ApplyFns :
        LibCalled("lib_apply_dims", <<>>, ds, f, <<>>,
                  lib_apply_dims(p, ds, f))

LibApplyVals ==
    /\ pc = "idle"
    /\ p # <<>>
    /\ \E values \in Arrays(dims_of(p)), f \in ApplyValsFns :
        LibCalled("lib_apply_vals", values, <<>>, f, <<>>,
                  lib_apply_vals(p, values, f))

LibApplyPoint ==
    /\ pc = "idle"
    /\ p # <<>>
    /\ \E values \in Arrays(dims_of(p)), f \in ApplyValsFns :
        LibCalled("lib_apply_point", values, <<>>, f, <<>>,
                  lib_apply_point(p, <<values>>, f))

\* -p
LibNeg ==
    /\ pc = "idle"
    /\ p # <<>>
    /\ LibCalled("lib_neg", <<>>, <<>>, "none", <<>>, lib_neg(p))

\* p + rhs, p - rhs, p * rhs, p / rhs
LibBinOp ==
    /\ pc = "idle"
    /\ p # <<>>
    /\ \E op \in BinOps, rhs \in Arrays(dims_of(p)) :
        LibCalled("lib_binop", rhs, <<>>, "none", op,
                  lib_binop(op, p, <<rhs>>))

\* p += rhs, p -= rhs, p *= rhs, p /= rhs
LibOpAssign ==
    /\ pc = "idle"
    /\ p # <<>>
    /\ \E op \in BinOps, rhs \in Arrays(dims_of(p)) :
        LibCalled("lib_op_assign", rhs, <<>>, "none", op,
                  lib_op_assign(op, p, <<rhs>>))

\* A program of lib.rs holds no point until a constructor gives it one.
InitLib ==
    /\ pc = "idle"
    /\ method = "none"
    /\ p = <<>>
    /\ n = 0
    /\ m = 0
    /\ i = 0
    /\ this = <<>>
    /\ vals = <<>>
    /\ arr_v = <<>>
    /\ dims = <<>>
    /\ keep = 0
    /\ modifier = "none"
    /\ src = <<>>
    /\ srcvals = <<>>
    /\ calls = <<>>
    /\ cause = "none"
    /\ chain0 = 0
    /\ arg = <<>>
    /\ out = <<>>
    /\ blocks = 0

NextLib ==
    \/ Chain
    \/ LibNew
    \/ LibFromSlice
    \/ LibFill
    \/ LibTryFromArray
    \/ LibTryFromSlice
    \/ LibApply
    \/ LibApplyDims
    \/ LibApplyVals
    \/ LibApplyPoint
    \/ LibNeg
    \/ LibBinOp
    \/ LibOpAssign

SpecLib == InitLib /\ [][NextLib]_vars

\* ------------------------------------------- the writes, on up to four axes
\* The points of every length that has named setters, and of length 0.
WritePoints ==
    {PointND_from(array) : array \in UNION {Arrays(len) : len \in 0..MaxAxes}}

InitWrites ==
    /\ pc = "idle"
    /\ method = "none"
    /\ p \in WritePoints
    /\ n = 0
    /\ m = 0
    /\ i = 0
    /\ this = <<>>
    /\ vals = <<>>
    /\ arr_v = <<>>
    /\ dims = <<>>
    /\ keep = 0
    /\ modifier = "none"
    /\ src = <<>>
    /\ srcvals = <<>>
    /\ calls = <<>>
    /\ cause = "none"
    /\ chain0 = dims_of(p)
    /\ arg = <<>>
    /\ out = <<>>
    /\ blocks = 0

NextWrites ==
    \/ Chain
    \/ IndexSet
    \/ SetAxis

\* A program that only writes into the point it holds.
SpecWrites == InitWrites /\ [][NextWrites]_vars

\* ------------------------------------------ chains of extend and retain
\* `p.extend(v).retain(d)`: retain is called on the point extend returned,
\* or on the first point. src and srcvals keep the point and the values of the last extend,
\* arg the point the last call was made on and the method that returned it.
ResizeCalled(meth, res, count, cap) ==
    /\ method' = meth
    /\ arg' = [self |-> p, after |-> method]
    /\ keep' = count
    /\ n' = dims_of(p)
    /\ m' = cap
    /\ pc' = res.status
    /\ cause' = res.cause
    /\ p' = res.point
    /\ UNCHANGED <<i, this, vals, arr_v, dims, modifier, calls, chain0, out,
                   blocks>>

ExtendCall ==
    /\ pc = "idle"
    /\ \E len \in 0..MaxN :
       \E values \in Arrays(len), cap \in {dims_of(p) + len, MaxN} :
        /\ ResizeCalled("extend", extend(p, values, cap), 0, cap)
        /\ src' = into_arr(p)
        /\ srcvals' = values

RetainCall ==
    /\ pc \in {"idle", "returned"}
    /\ method \in {"none", "extend"}
    /\ \E count \in 0..(dims_of(p) + 1) :
       \E cap \in {count, dims_of(p)} :
        /\ ResizeCalled("retain", retain(p, count, cap), count, cap)
        /\ UNCHANGED <<src, srcvals>>

InitResize ==
    /\ pc = "idle"
    /\ method = "none"
    /\ p \in Points
    /\ n = 0
    /\ m = 0
    /\ i = 0
    /\ this = <<>>
    /\ vals = <<>>
    /\ arr_v = <<>>
    /\ dims = <<>>
    /\ keep = 0
    /\ modifier = "none"
    /\ src = <<>>
    /\ srcvals = <<>>
    /\ calls = <<>>
    /\ cause = "none"
    /\ chain0 = dims_of(p)
    /\ arg = <<>>
    /\ out = <<>>
    /\ blocks = 0

NextResize ==
    \/ ExtendCall
    \/ RetainCall

SpecResize == InitResize /\ [][NextResize]_vars

\* ------------------------------------------------- chains of two appliers
\* `p.apply(f).apply(g)`: the second call is made on the point the first
\* returned; a panic of the first unwinds out of the chain.
apply_apply(self, f, g) ==
    LET first == apply(self, f) IN
    IF first.status = "returned" THEN apply(first.point, g) ELSE first

apply_dims_apply_dims(self, d1, f, d2, g) ==
    LET first == apply_dims(self, d1, f) IN
    IF first.status = "returned" THEN apply_dims(first.point, d2, g)
    ELSE first

\* arg keeps the point the chain was called on and the arguments of its calls.
Chained(meth, res, given) ==
    /\ pc = "idle"
    /\ method' = meth
    /\ arg' = given
    /\ src' = into_arr(p)
    /\ n' = dims_of(p)
    /\ m' = dims_of(p)
    /\ pc' = res.status
    /\ cause' = res.cause
    /\ p' = res.point
    /\ calls' = res.calls
    /\ UNCHANGED <<i, this, vals, arr_v, dims, keep, modifier, srcvals,
                   chain0, out, blocks>>

ApplyApply ==
    /\ pc = "idle"
    /\ \E f \in ApplyFns, g \in ApplyFns :
        Chained("apply.apply", apply_apply(p, f, g),
                [self |-> p, f |-> f, g |-> g, d1 |-> <<>>, d2 |-> <<>>])

\* The dims slices of the chained calls: no index, or one.
ChainDims == {ds \in DimsSlices : Len(ds) <= 1}

ApplyDimsApplyDims ==
    /\ pc = "idle"
    /\ \E f \in ApplyFns, g \in ApplyFns, d1 \in ChainDims, d2 \in ChainDims :
        Chained("apply_dims.apply_dims",
                apply_dims_apply_dims(p, d1, f, d2, g),
                [self |-> p, f |-> f, g |-> g, d1 |-> d1, d2 |-> d2])

InitChains ==
    /\ pc = "idle"
    /\ method = "none"
    /\ p \in Points
    /\ n = 0
    /\ m = 0
    /\ i = 0
    /\ this = <<>>
    /\ vals = <<>>
    /\ arr_v = <<>>
    /\ dims = <<>>
    /\ keep = 0
    /\ modifier = "none"
    /\ src = <<>>
    /\ srcvals = <<>>
    /\ calls = <<>>
    /\ cause = "none"
    /\ chain0 = dims_of(p)
    /\ arg = <<>>
    /\ out = <<>>
    /\ blocks = 0

NextChains ==
    \/ ApplyApply
    \/ ApplyDimsApplyDims

SpecChains == InitChains /\ [][NextChains]_vars

\* ----------------------------------------------------------- properties
Appliers == {"apply", "apply_dims", "apply_vals", "apply_point"}

\* N > ARRVEC_CAP: the points of the behaviour are longer than u32::MAX.
ExceedsCap == blocks > U16_MAX

\* The indices a dims slice lists.
Listed(ds) == {ds[k] : k \in 1..Len(ds)}

\* ds without the repetitions of an index (the first occurrence stays).
RECURSIVE Dedup(_)
Dedup(ds) ==
    IF ds = <<>> THEN <<>>
    ELSE LET front == Dedup(SubSeq(ds, 1, Len(ds) - 1))
             last  == ds[Len(ds)]
         IN  IF last \in Listed(front) THEN front ELSE Append(front, last)

\* ds without the indices that are out of range for a point of len dimensions.
InRange(ds, len) == SelectSeq(ds, LAMBDA d : d < len)

\* C1: when apply(f) returns, the point has the length of the source and
\* holds f(source[k]) at every position k, in the source's order.
C1_ApplyMapsEveryPosition ==
    (pc = "returned" /\ method = "apply") =>
        /\ dims_of(p) = Len(src)
        /\ \A k \in 1..Len(src) : into_arr(p)[k] = ApplyFn(modifier, src[k])

C1_Witness ==
    /\ pc = "returned"
    /\ method = "apply"
    /\ Len(src) = 2
    /\ src[1] # src[2]
    /\ into_arr(p)[1] # into_arr(p)[2]
    /\ into_arr(p) # src

\* C2: in an apply, apply_vals or apply_point call the k-th invocation of the
\* modifier receives the item(s) of position k - 1; there are never more
\* invocations than loop iterations, and exactly N when the call returns.
C2_ModifierOncePerPositionInOrder ==
    method \in {"apply", "apply_vals", "apply_point"} =>
        /\ Len(calls) <= Len(src)
        /\ \A k \in 1..Len(calls) :
              calls[k].args = IF method = "apply"
                              THEN <<src[k]>>
                              ELSE <<src[k], srcvals[k]>>
        /\ (pc = "loop" => Len(calls) = i)
        /\ (pc = "returned" => Len(calls) = Len(src))

C2_Witness ==
    /\ pc = "returned"
    /\ method = "apply_vals"
    /\ Len(calls) = 2
    /\ calls[1].args # calls[2].args
    /\ calls[1].args[1] # calls[1].args[2]

\* C3: a point reached by a chain of appliers has the dims() the chain began
\* with, no applier fails unless its modifier panics (or N is over the
\* capacity ceiling), and the point an applier returns has the length of its
\* source.
C3_AppliersPreserveDims ==
    /\ (pc \in {"idle", "returned"} => dims_of(p) = chain0)
    /\ (pc = "panicked" /\ method \in Appliers =>
            cause = "modifier" \/ (cause = "check_cap" /\ ExceedsCap))
    /\ (pc = "returned" /\ method \in Appliers => dims_of(p) = Len(src))

C3_Witness ==
    /\ pc = "returned"
    /\ method = "apply_dims"
    /\ dims_of(p) = 2
    /\ chain0 = 2
    /\ into_arr(p) # src

C5_ApplyDimsOncePerPosition ==
    (pc \in {"returned", "panicked"} /\ method = "apply_dims") =>
        LET r == apply_dims(PointND_from(src), Dedup(dims), modifier) IN
        /\ r.status = pc
        /\ r.point = p
        /\ r.calls = calls
        /\ Len(calls) <=
              Cardinality({k \in 1..Len(src) : (k - 1) \in Listed(dims)})

C5_Witness ==
    /\ pc = "returned"
    /\ method = "apply_dims"
    /\ dims = <<1, 1>>
    /\ Len(src) = 2
    /\ Len(calls) = 1
    /\ into_arr(p)[2] # src[2]

\* C6: an index >= N in dims never makes apply_dims fail, and the outcome is
\* that of apply_dims with the out-of-range indices removed.
C6_ApplyDimsIgnoresOutOfRange ==
    (pc \in {"returned", "panicked"} /\ method = "apply_dims") =>
        LET r == apply_dims(PointND_from(src), InRange(dims, Len(src)),
                            modifier) IN
        /\ r.status = pc
        /\ r.cause = cause
        /\ r.point = p
        /\ r.calls = calls
        /\ (pc = "panicked" => cause = "modifier" \/ ExceedsCap)

C6_Witness ==
    /\ pc = "returned"
    /\ method = "apply_dims"
    /\ Len(src) = 2
    /\ dims = <<2, 0>>
    /\ into_arr(p)[1] # src[1]
    /\ into_arr(p)[2] = src[2]

\* C7: when apply_vals(values, f) returns, position k holds
\* f(self[k], values[k]): the point's item first, the array's item second,
\* paired by equal index.
C7_ApplyValsPairsByIndex ==
    (pc = "returned" /\ method = "apply_vals") =>
        /\ dims_of(p) = Len(src)
        /\ \A k \in 1..Len(src) :
              into_arr(p)[k] = ApplyValsFn(modifier, src[k], srcvals[k])

C7_Witness ==
    /\ pc = "returned"
    /\ method = "apply_vals"
    /\ Len(src) = 2
    /\ srcvals[1] # srcvals[2]
    /\ ApplyValsFn(modifier, src[1], srcvals[1])
          # ApplyValsFn(modifier, srcvals[1], src[1])
    /\ ApplyValsFn(modifier, src[2], srcvals[2])
          # ApplyValsFn(modifier, src[2], srcvals[1])

\* C8: self.apply_point(other, f) ends as self.apply_vals(other.into_arr(), f)
\* does: the same point, or the same panic after the same invocations.
C8_ApplyPointIsApplyVals ==
    (pc \in {"returned", "panicked"} /\ method = "apply_point") =>
        LET r == apply_vals(PointND_from(src), srcvals, modifier) IN
        /\ r.status = pc
        /\ r.cause = cause
        /\ r.point = p
        /\ r.calls = calls

C8_Witness ==
    /\ pc = "returned"
    /\ method = "apply_point"
    /\ Len(src) = 2
    /\ src # srcvals
    /\ into_arr(p) # src
    /\ ApplyValsFn(modifier, src[1], srcvals[1])
          # ApplyValsFn(modifier, srcvals[1], src[1])

\* C9: on a point with N = 0 an applier never panics, never invokes the
\* modifier, has nothing to iterate over, and returns the empty point.
C9_EmptyPointIsVacuous ==
    (method \in Appliers /\ Len(src) = 0 /\ blocks = 0) =>
        /\ pc # "panicked"
        /\ calls = <<>>
        /\ (pc = "loop" => i = n /\ n = 0)
        /\ (pc = "returned" => dims_of(p) = 0)

C9_Witness ==
    /\ pc = "returned"
    /\ method = "apply_dims"
    /\ src = <<>>
    /\ dims # <<>>
    /\ p = PointND_from(<<>>)

\* C10, as claimed: once the modifier has signalled a failure (returned the
\* failure value or panicked) the call invokes it no more and returns no
\* point.
C10_FailureAbortsCall ==
    \A k \in 1..Len(calls) :
        calls[k].ret \in {ErrItem, Panic} =>
            /\ k = Len(calls)
            /\ pc # "returned"

\* C10, amended: a panic of the modifier ends the call at once, with no
\* further invocation and no point returned; a failure value the modifier
\* returns is an item like any other: it is stored at its position, the
\* remaining positions are processed, and a point of length N is returned.
C10_PanicAbortsErrIsStored ==
    /\ \A k \in 1..Len(calls) :
          calls[k].ret = Panic =>
              /\ k = Len(calls)
              /\ pc = "panicked"
              /\ cause = "modifier"
              /\ p = <<>>
    /\ (pc = "panicked" /\ method \in Appliers /\ cause # "check_cap" =>
            /\ calls # <<>>
            /\ calls[Len(calls)].ret = Panic)
    /\ (pc = "returned" /\ method \in Appliers =>
            /\ dims_of(p) = Len(src)
            /\ IF method = "apply_dims"
               THEN /\ Len(calls) = Cardinality(
                           {k \in 1..Len(src) : (k - 1) \in Listed(dims)})
                    /\ \A k \in 1..Len(calls) :
                           \E j \in 1..dims_of(p) : into_arr(p)[j] = calls[k].ret
               ELSE /\ Len(calls) = Len(src)
                    /\ \A k \in 1..Len(calls) : into_arr(p)[k] = calls[k].ret)

C10_Witness ==
    /\ pc = "returned"
    /\ method = "apply"
    /\ Len(calls) = 2
    /\ calls[1].ret = ErrItem
    /\ calls[2].ret # ErrItem
    /\ into_arr(p)[1] = ErrItem

\* Every method that builds its result in a scratch ArrayVec.
ScratchMethods == Appliers \cup {"extend", "retain"}

\* C11: on a point whose length N exceeds ARRVEC_CAP = u32::MAX, each of
\* apply, apply_dims, apply_vals, apply_point, extend and retain panics in
\* its capacity check, before its loop: the modifier has not been invoked, no
\* iteration has run and no item has been moved into the scratch vectors.
C11_OverCapacityPanicsBeforeLoop ==
    (ExceedsCap /\ method \in ScratchMethods) =>
        /\ pc = "panicked"
        /\ cause = "check_cap"
        /\ calls = <<>>
        /\ i = 0
        /\ this = <<>>
        /\ vals = <<>>
        /\ arr_v = <<>>

C11_Witness ==
    /\ ExceedsCap
    /\ pc = "panicked"
    /\ cause = "check_cap"
    /\ method = "apply"
    /\ modifier = "succ"
    /\ Len(src) = 2

\* C12: extend(values) with M = N + L returns a point of N + L dimensions:
\* the N items of the source in their order, then the L items of values in
\* their order. Extending the empty point gives values, extending by the
\* empty array gives the source.
C12_ExtendAppendsValues ==
    (method = "extend" /\ blocks = 0) =>
        /\ (m = n + Len(srcvals) => pc # "panicked")
        /\ (pc = "returned" =>
                /\ dims_of(p) = Len(src) + Len(srcvals)
                /\ \A k \in 1..Len(src) : into_arr(p)[k] = src[k]
                /\ \A k \in 1..Len(srcvals) :
                       into_arr(p)[Len(src) + k] = srcvals[k]
                /\ (src = <<>> => into_arr(p) = srcvals)
                /\ (srcvals = <<>> => into_arr(p) = src))

C12_Witness ==
    /\ pc = "returned"
    /\ method = "extend"
    /\ Len(src) = 1
    /\ Len(srcvals) = 1
    /\ src[1] # srcvals[1]
    /\ into_arr(p) = <<src[1], srcvals[1]>>

C14_RetainKeepsFront ==
    (method = "retain" /\ blocks = 0) =>
        /\ (keep <= n /\ m = keep => pc # "panicked")
        /\ (pc = "returned" =>
                /\ keep <= n
                /\ dims_of(p) = keep
                /\ \A k \in 1..keep : into_arr(p)[k] = src[k]
                /\ (keep = n => into_arr(p) = src)
                /\ (keep = 0 => p = PointND_from(<<>>)))

C14_Witness ==
    /\ pc = "returned"
    /\ method = "retain"
    /\ n = 2
    /\ keep = 1
    /\ src[1] # src[2]
    /\ into_arr(p) = <<src[1]>>

\* C15: retain panics when the dims argument or the target length M is
\* greater than N, in its guard: no iteration has run and no item of the
\* source has been moved into the scratch vectors.
C15_RetainMoreThanHeldPanics ==
    (method = "retain" /\ blocks = 0 /\ (keep > n \/ m > n)) =>
        /\ pc = "panicked"
        /\ cause = "more_dims"
        /\ p = <<>>
        /\ i = 0
        /\ this = <<>>
        /\ arr_v = <<>>

C15_Witness ==
    /\ pc = "panicked"
    /\ method = "retain"
    /\ cause = "more_dims"
    /\ n = 1
    /\ keep = 2
    /\ m = 1

\* C16: for every array a, of any length from 0 up, PointND::from(a) has
\* a.len() dimensions, PointND::from(a).into_arr() is a, and the array the
\* From conversion of a point gives is the one into_arr gives.
C16_FromIntoRoundTrip ==
    /\ (pc = "returned" /\ method = "from" =>
            /\ dims_of(p) = Len(arg)
            /\ array_from(p) = into_arr(p))
    /\ (pc = "array" =>
            /\ method \in {"into_arr", "array_from"}
            /\ out = <<arg>>)

C16_Witness ==
    /\ pc = "array"
    /\ method = "into_arr"
    /\ Len(arg) = 2
    /\ arg[1] # arg[2]
    /\ out[1][1] = arg[1]

\* C17: PointND::fill(v) for a length N has dims() = N, and get(i) is
\* Some(v) at every i in 0..N.
C17_FillHoldsValueEverywhere ==
    (pc = "returned" /\ method = "fill") =>
        /\ dims_of(p) = arg.n
        /\ \A idx \in 0..(arg.n - 1) : get(p, idx) = <<arg.value>>

C17_Witness ==
    /\ pc = "returned"
    /\ method = "fill"
    /\ arg.n = 2
    /\ arg.value = 1
    /\ get(p, 1) = <<1>>

\* C18: two points of the same length compare equal exactly when their arrays
\* hold equal items at every position: points built from equal arrays are
\* equal, points built from arrays that differ at a position are unequal.
C18_EqualityIsStructural ==
    (pc = "returned" /\ method = "eq") =>
        /\ out \in {<<TRUE>>, <<FALSE>>}
        /\ (into_arr(p) = arg => out = <<TRUE>>)
        /\ ((\E k \in 1..dims_of(p) : into_arr(p)[k] # arg[k])
                => out = <<FALSE>>)

C18_Witness ==
    /\ pc = "returned"
    /\ method = "eq"
    /\ out = <<FALSE>>
    /\ dims_of(p) = 2
    /\ into_arr(p)[1] = arg[1]
    /\ into_arr(p)[2] # arg[2]

\* C19: from a slice whose length is not N, from_slice panics and gives no
\* point and try_from gives Err, whatever N and the length; from a slice of
\* length N both give the point that holds slice[i] at every position i.
C19_SliceLengthMustMatch ==
    /\ (method = "from_slice" =>
            IF Len(arg.slice) = arg.n
            THEN /\ pc = "returned"
                 /\ dims_of(p) = arg.n
                 /\ \A k \in 1..arg.n : into_arr(p)[k] = arg.slice[k]
            ELSE /\ pc = "panicked"
                 /\ p = <<>>)
    /\ (method = "try_from" =>
            IF Len(arg.slice) = arg.n
            THEN /\ pc = "returned"
                 /\ out = <<"Ok">>
                 /\ dims_of(p) = arg.n
                 /\ \A k \in 1..arg.n : into_arr(p)[k] = arg.slice[k]
            ELSE /\ pc = "failed"
                 /\ out = <<"Err">>
                 /\ p = <<>>)

C19_Witness ==
    /\ pc = "failed"
    /\ method = "try_from"
    /\ Len(arg.slice) = 2
    /\ arg.n = 1

\* C20: p[i] panics for every i >= N while get(i) is None for it, without
\* a panic; for i < N both give the item at position i.
C20_IndexPanicsGetIsNone ==
    /\ (method = "index" =>
            IF arg < dims_of(p)
            THEN pc = "returned" /\ out = <<into_arr(p)[arg + 1]>>
            ELSE pc = "panicked" /\ cause = "out_of_bounds" /\ out = <<>>)
    /\ (method = "get" =>
            /\ pc = "returned"
            /\ out = IF arg < dims_of(p)
                     THEN <<into_arr(p)[arg + 1]>>
                     ELSE <<>>)

C20_Witness ==
    /\ pc = "panicked"
    /\ method = "index"
    /\ dims_of(p) = 2
    /\ arg = 2

\* The methods that write into the held point.
Writes == {"index_set", "set_x", "set_y", "set_z", "set_w"}

\* C21: after p[i] = v with i < N, or the setter of an axis, the position
\* written holds v, every other position holds what it held before, and
\* dims() is what it was; the setter of axis x, y, z, w writes position
\* 0, 1, 2, 3.
C21_WriteTouchesOnePosition ==
    (method \in Writes) =>
        /\ dims_of(p) = dims_of(arg.old)
        /\ dims_of(p) = chain0
        /\ (arg.idx < dims_of(arg.old) => pc = "returned")
        /\ (method # "index_set" =>
                /\ pc = "returned"
                /\ method = "set_" \o Axes[arg.idx + 1])
        /\ (pc = "returned" =>
                /\ arg.idx < dims_of(p)
                /\ \A k \in 0..(dims_of(p) - 1) :
                       get(p, k) = IF k = arg.idx
                                   THEN <<arg.value>>
                                   ELSE get(arg.old, k))
        /\ (pc = "panicked" => p = arg.old)

C21_Witness ==
    /\ pc = "returned"
    /\ method = "set_w"
    /\ dims_of(p) = MaxAxes
    /\ get(p, 3) # get(arg.old, 3)
    /\ get(p, 2) # get(p, 3)

\* The constructors of lib.rs.
LibConstructors ==
    {"lib_new", "lib_from_slice", "lib_fill",
     "lib_try_from_array", "lib_try_from_slice"}

\* C22: in lib.rs no point of zero dimensions is ever held: new, from_slice
\* and fill panic for N = 0, both TryFrom conversions give Err for it, and
\* every point the constructors, appliers and operators hand out has
\* dims() >= 1.
C22_LibNoZeroDimensions ==
    /\ (p # <<>> => dims_of(p) >= 1)
    /\ (method \in {"lib_new", "lib_from_slice", "lib_fill"} /\ arg.n = 0 =>
            pc = "panicked" /\ p = <<>>)
    /\ (method \in {"lib_try_from_array", "lib_try_from_slice"}
           /\ arg.n = 0 =>
            pc = "failed" /\ out[1] = "Err" /\ p = <<>>)

C22_Witness ==
    /\ pc = "panicked"
    /\ method = "lib_fill"
    /\ arg.n = 0
    /\ cause = "zero_dims"

\* C23: in lib.rs the operators work item by item: a + b, a - b, a * b and
\* a / b hold the sum, difference, product and quotient of the items of a
\* and b at every position, -a the negated items of a, and a compound
\* assignment leaves in a what the binary operator returns (and panics
\* when that panics).
C23_LibOperatorsElementwise ==
    /\ (pc = "returned" /\ method \in {"lib_binop", "lib_op_assign"} =>
            /\ dims_of(p) = Len(src)
            /\ \A k \in 1..Len(src) :
                   into_arr(p)[k] = ItemOp(arg, src[k], srcvals[k]))
    /\ (method = "lib_neg" =>
            /\ pc = "returned"
            /\ dims_of(p) = Len(src)
            /\ \A k \in 1..Len(src) : into_arr(p)[k] = ItemNeg(src[k]))
    /\ (method = "lib_op_assign" =>
            LET r == lib_binop(arg, <<src>>, <<srcvals>>) IN
            /\ r.status = pc
            /\ r.point = p)
    /\ (method \in {"lib_binop", "lib_op_assign"} =>
            (pc = "panicked" <=>
                \E k \in 1..Len(src) : arg = "div" /\ srcvals[k] = 0))

C23_Witness ==
    /\ pc = "returned"
    /\ method = "lib_binop"
    /\ arg = "sub"
    /\ Len(src) = 2
    /\ src[1] # srcvals[1]
    /\ src[2] # srcvals[2]
    /\ into_arr(p)[1] # into_arr(p)[2]
    /\ ItemOp("sub", src[1], srcvals[1]) # ItemOp("sub", srcvals[1], src[1])

\* C24, as claimed: in apply, apply_dims, apply_vals, apply_point, extend
\* and retain the scratch ArrayVec is full when it is converted into the
\* array, so the panic of arrvec_into_inner is never reached.
C24_IntoInnerNeverPanics ==
    method \in ScratchMethods => cause # "into_inner"

\* C25: extend panics whenever N + L is greater than u32::MAX, also when N
\* and L are each within it, in its check: no iteration has run and no
\* item has been moved into the scratch vectors.
C25_ExtendSumOverCapacityPanics ==
    (method = "extend"
        /\ ~within_cap(n + Len(srcvals), blocks + arg.blocks)) =>
        /\ pc = "panicked"
        /\ cause = "check_cap"
        /\ p = <<>>
        /\ i = 0
        /\ this = <<>>
        /\ vals = <<>>
        /\ arr_v = <<>>

C25_Witness ==
    /\ pc = "panicked"
    /\ method = "extend"
    /\ cause = "check_cap"
    /\ blocks = HalfBlocks
    /\ arg.blocks = HalfBlocks
    /\ within_cap(n, blocks)
    /\ within_cap(Len(srcvals), arg.blocks)
    /\ n = 1
    /\ Len(srcvals) = 1

\* C26: in apply, apply_dims, apply_vals and apply_point, after k iterations
\* arr_v holds exactly k items and `this` (and `vals`, in apply_vals) holds
\* the N - k items of positions k..N of the original, in order; no
\* pop_at(0).unwrap() fails and no push finds arr_v full; when the loop is
\* left the source vectors are empty and arr_v holds N items.
C26_ScratchBookkeeping ==
    method \in Appliers =>
        /\ cause \notin {"unwrap", "push"}
        /\ pc = "loop" =>
            /\ i <= n
            /\ Len(arr_v) = i
            /\ Len(this) = n - i
            /\ this = SubSeq(src, i + 1, n)
            /\ method \in {"apply_vals", "apply_point"} =>
                   vals = SubSeq(srcvals, i + 1, n)
        /\ pc = "returned" =>
            /\ i = n
            /\ this = <<>>
            /\ vals = <<>>
            /\ Len(arr_v) = n

C26_Witness ==
    /\ pc = "loop"
    /\ method = "apply_vals"
    /\ n = 2
    /\ i = 1
    /\ src[1] # src[2]
    /\ srcvals[1] # srcvals[2]
    /\ this = <<src[2]>>
    /\ vals = <<srcvals[2]>>
    /\ Len(arr_v) = 1

C28_ExtendThenRetain ==
    (method = "retain" /\ arg.after = "extend") =>
        /\ (keep = Len(src) /\ m = Len(src)) =>
            /\ pc = "returned"
            /\ p = PointND_from(src)
            /\ eq(p, PointND_from(src))
        /\ (keep = Len(src) + Len(srcvals) /\ m = keep) =>
            /\ pc = "returned"
            /\ p = arg.self
            /\ eq(p, arg.self)
            /\ into_arr(p) = src \o srcvals

C28_Witness ==
    /\ pc = "returned"
    /\ method = "retain"
    /\ arg.after = "extend"
    /\ Len(src) = 1
    /\ Len(srcvals) = 1
    /\ src[1] # srcvals[1]
    /\ keep = 1
    /\ m = 1
    /\ p = PointND_from(src)

\* What two calls hand back is the same: both return the same point, or
\* both panic.
SameOutcome(a, b) == a.status = b.status /\ a.point = b.point

\* C29: p.apply(f).apply(g) equals p.apply(|x| g(f(x))), and
\* p.apply_dims(d1, f).apply_dims(d2, g) with disjoint d1 and d2 equals
\* p.apply_dims(d2, g).apply_dims(d1, f).
C29_ApplyComposesDimsCommute ==
    /\ method = "apply.apply" =>
           SameOutcome([status |-> pc, point |-> p],
                       apply(arg.self, compose(arg.f, arg.g)))
    /\ (method = "apply_dims.apply_dims"
           /\ Listed(arg.d1) \cap Listed(arg.d2) = {}) =>
           SameOutcome([status |-> pc, point |-> p],
                       apply_dims_apply_dims(arg.self, arg.d2, arg.g,
                                             arg.d1, arg.f))

C29_Witness ==
    /\ pc = "returned"
    /\ method = "apply.apply"
    /\ arg.f = "succ"
    /\ arg.g = "try_pred"
    /\ src = <<0, 1>>
    /\ p = PointND_from(<<0, ErrItem>>)

\* What the call the state records handed back.
Handed == [status |-> pc, cause |-> cause, point |-> p, calls |-> calls]

====
